---- MODULE Spec2Model ----
(***************************************************************************)
(* Event-study engine of QuantumSignalResearch:                            *)
(*   src/src/analysis/utils.py       compute_car, rolling_residual         *)
(*   src/src/compute_car.py          compute_car (stand-alone copy)        *)
(*   src/src/analysis/stats.py       random_sample, single_sample_test,    *)
(*                                   two_sample_test                       *)
(*   src/src/analysis/EventStudy.py  class EventStudy                      *)
(*                                                                         *)
(* Numbers are exact rationals <<num, den>> with den > 0 and gcd = 1;      *)
(* the float NaN (pandas' missing value) is <<0, 0>>.                      *)
(* A pandas Series is [kind |-> "Series", rows |-> <<[date, val], ...>>],  *)
(* Python's None is [kind |-> "None", rows |-> <<>>].                      *)
(* Calendar dates are integers (day numbers).                              *)
(***************************************************************************)
EXTENDS Integers, Sequences, FiniteSets, TLC

VARIABLES
    ticker,          \* EventStudy.ticker
    market_returns,  \* EventStudy.market_returns
    car_windows,     \* EventStudy.car_windows
    residuals,       \* EventStudy.residuals (None until fit_residuals)
    returns,         \* the series handed to a module-level function called directly
    call             \* the last completed call: operation, arguments, outcome

vars == <<ticker, market_returns, car_windows, residuals, returns, call>>

(***************************************************************************)
(* Bounds of the model.                                                    *)
(***************************************************************************)
MaxLen == 3        \* longest series handed to a function called directly
MaxWindow == 2     \* largest CAR window tried
MaxN == 3          \* largest sample size n asked of the resampler
MaxM == 2          \* largest number of Monte Carlo trials M
SeriesLen == 4     \* trading days in the benchmark series of the orchestrator

(***************************************************************************)
(* Exact arithmetic.                                                       *)
(***************************************************************************)
NaN == <<0, 0>>

IsNaN(a) == a[2] = 0

Abs(n) == IF n < 0 THEN -n ELSE n

RECURSIVE GCD(_, _)
GCD(a, b) == IF b = 0 THEN a ELSE GCD(b, a % b)

RNorm(n, d) ==
    IF d = 0 THEN NaN
    ELSE LET g == GCD(Abs(n), Abs(d))
             s == IF d < 0 THEN -1 ELSE 1
         IN  <<(s * n) \div g, (s * d) \div g>>

R(n) == <<n, 1>>

RAdd(a, b) == IF IsNaN(a) \/ IsNaN(b) THEN NaN ELSE RNorm(a[1] * b[2] + b[1] * a[2], a[2] * b[2])

RSub(a, b) == IF IsNaN(a) \/ IsNaN(b) THEN NaN ELSE RNorm(a[1] * b[2] - b[1] * a[2], a[2] * b[2])

RMul(a, b) == IF IsNaN(a) \/ IsNaN(b) THEN NaN ELSE RNorm(a[1] * b[1], a[2] * b[2])

RDiv(a, b) == IF IsNaN(a) \/ IsNaN(b) THEN NaN ELSE RNorm(a[1] * b[2], a[2] * b[1])

RSign(a) == IF a[1] > 0 THEN 1 ELSE IF a[1] < 0 THEN -1 ELSE 0

(***************************************************************************)
(* Series.                                                                 *)
(***************************************************************************)
None == [kind |-> "None", rows |-> <<>>]

Series(rows) == [kind |-> "Series", rows |-> rows]

IsNone(s) == s.kind = "None"

\* the date axis (pandas .index) of a series, as a sequence of dates
Index(s) == [p \in 1..Len(s.rows) |-> s.rows[p].date]

\* `date in returns.index`
InIndex(s, date) == \E p \in 1..Len(s.rows) : s.rows[p].date = date

\* `returns.index.get_loc(date)` on a unique axis: the 0-based offset of date
GetLoc(s, date) == (CHOOSE p \in 1..Len(s.rows) : s.rows[p].date = date) - 1

\* Series.sum(): missing values are skipped, the sum of nothing is 0
RECURSIVE SumSkipNa(_)
SumSkipNa(vs) ==
    IF vs = <<>> THEN R(0)
    ELSE IF IsNaN(Head(vs)) THEN SumSkipNa(Tail(vs))
    ELSE RAdd(Head(vs), SumSkipNa(Tail(vs)))

\* positional slice [lo:hi] (0-based, hi exclusive), clipped to the series as
\* Python slicing clips it
ILocSlice(s, lo, hi) ==
    LET n  == Len(s.rows)
        l  == IF lo > n THEN n ELSE lo
        h  == IF hi > n THEN n ELSE hi
    IN  IF h <= l THEN <<>> ELSE [k \in 1..(h - l) |-> s.rows[l + k].val]

(***************************************************************************)
(* utils.compute_car: stock_returns.iloc[event_index : event_index +       *)
(* window + 1].sum()                                                       *)
(***************************************************************************)
compute_car(stock_returns, event_index, window) ==
    SumSkipNa(ILocSlice(stock_returns, event_index, event_index + window + 1))

\* compute_car.py: stock_returns[event_index:event_index+window+1].sum();
\* an integer slice of a Series is positional
compute_car_script(stock_returns, event_index, window) ==
    SumSkipNa(ILocSlice(stock_returns, event_index, event_index + window + 1))

(***************************************************************************)
(* Outcome of a call: a returned value or a raised exception.              *)
(***************************************************************************)
Ok(v) == [status |-> "ok", error |-> "", value |-> v]

Raise(e) == [status |-> "raise", error |-> e, value |-> <<>>]

(***************************************************************************)
(* Sample statistics.  A standard deviation is carried as its square (the  *)
(* sample variance, ddof = 1).  A t statistic is <<sgn, num, den>>,        *)
(* standing for sgn * sqrt(num/den); den = 0 with num = 1 is an infinite   *)
(* statistic and <<0, 0, 0>> is NaN.  A p-value is a function of t^2 and   *)
(* the degrees of freedom and is carried as <<num, den, df>>.              *)
(***************************************************************************)
NaN3 == <<0, 0, 0>>

RECURSIVE SumSq(_)
SumSq(vs) == IF vs = <<>> THEN R(0) ELSE RAdd(RMul(Head(vs), Head(vs)), SumSq(Tail(vs)))

\* pd.Series(cars).dropna()
DropNa(vs) == SelectSeq(vs, LAMBDA v : ~IsNaN(v))

\* Series.mean()
MeanOf(vs) == IF vs = <<>> THEN NaN ELSE RDiv(SumSkipNa(vs), R(Len(vs)))

\* sum of squared deviations from the mean
SSDev(vs) == RSub(SumSq(vs), RDiv(RMul(SumSkipNa(vs), SumSkipNa(vs)), R(Len(vs))))

\* Series.std() squared: the sample variance with ddof = 1, NaN for fewer than two values
VarOf(vs) == IF Len(vs) < 2 THEN NaN ELSE RDiv(SSDev(vs), R(Len(vs) - 1))

\* d / sqrt(q) as a t statistic, q a variance of the mean difference
TStat(d, q) ==
    IF IsNaN(d) \/ IsNaN(q) THEN NaN3
    ELSE IF q[1] = 0 THEN (IF d[1] = 0 THEN NaN3 ELSE <<RSign(d), 1, 0>>)
    ELSE LET t2 == RDiv(RMul(d, d), q) IN <<RSign(d), t2[1], t2[2]>>

PValue(t, df) == IF t = NaN3 THEN NaN3 ELSE <<t[2], t[3], df>>

\* scipy.stats.ttest_1samp(cars, test_mean)
ttest_1samp(cars, test_mean) ==
    LET t == TStat(RSub(MeanOf(cars), test_mean), RDiv(VarOf(cars), R(Len(cars))))
    IN  [t_stat |-> t, p_value |-> PValue(t, Len(cars) - 1)]

\* scipy.stats.ttest_ind(a, b), equal variances: an empty sample gives NaN, the
\* variance of a one-element sample counts as 0 in the pooled variance
ttest_ind(a, b) ==
    LET n1   == Len(a)
        n2   == Len(b)
        df   == n1 + n2 - 2
        svar == RDiv(RAdd(IF n1 = 0 THEN NaN ELSE SSDev(a), IF n2 = 0 THEN NaN ELSE SSDev(b)), R(df))
        q    == RMul(svar, RAdd(RDiv(R(1), R(n1)), RDiv(R(1), R(n2))))
        t    == IF n1 = 0 \/ n2 = 0 THEN NaN3 ELSE TStat(RSub(MeanOf(a), MeanOf(b)), q)
    IN  [t_stat |-> t, p_value |-> PValue(t, df)]

\* a row of the results DataFrame as first built: every column missing
MissingRow(window) ==
    [window |-> window, Mean |-> NaN, Std |-> NaN, N |-> NaN, t_stat |-> NaN3, p_value |-> NaN3]

RowMissing(row) ==
    /\ IsNaN(row.Mean) /\ IsNaN(row.Std) /\ IsNaN(row.N)
    /\ row.t_stat = NaN3 /\ row.p_value = NaN3

(***************************************************************************)
(* stats.single_sample_test                                                *)
(***************************************************************************)
\* the inner loop without its membership test: a date that is not in the axis
\* counts as a CAR of zero
RECURSIVE EventCars_absent_as_zero(_, _, _)
EventCars_absent_as_zero(rets, dates, window) ==
    IF dates = <<>> THEN <<>>
    ELSE IF InIndex(rets, Head(dates))
         THEN <<compute_car(rets, GetLoc(rets, Head(dates)), window)>>
              \o EventCars_absent_as_zero(rets, Tail(dates), window)
         ELSE <<R(0)>> \o EventCars_absent_as_zero(rets, Tail(dates), window)

\* the inner loop: one CAR per date found in the axis, in list order
RECURSIVE EventCars(_, _, _)
EventCars(rets, dates, window) ==
    IF dates = <<>> THEN <<>>
    ELSE IF InIndex(rets, Head(dates))
         THEN <<compute_car(rets, GetLoc(rets, Head(dates)), window)>>
              \o EventCars(rets, Tail(dates), window)
         ELSE EventCars(rets, Tail(dates), window)

\* the body of the loop over windows without `if len(cars) == 0: continue`
SingleRow_no_guard(rets, event_indices, window, test_mean) ==
    LET cars == DropNa(EventCars(rets, event_indices, window))
        tt   == ttest_1samp(cars, test_mean)
    IN  [window |-> window, Mean |-> MeanOf(cars), Std |-> VarOf(cars),
         N |-> R(Len(cars)), t_stat |-> tt.t_stat, p_value |-> tt.p_value]

\* the body of the loop over windows
SingleRow(rets, event_indices, window, test_mean) ==
    LET cars == DropNa(EventCars(rets, event_indices, window))
        tt   == ttest_1samp(cars, test_mean)
    IN  IF Len(cars) = 0 THEN MissingRow(window)
        ELSE [window |-> window, Mean |-> MeanOf(cars), Std |-> VarOf(cars),
              N |-> R(Len(cars)), t_stat |-> tt.t_stat, p_value |-> tt.p_value]

\* `returns.index` on None raises AttributeError, at the first date of the first window
single_sample_test(rets, event_indices, windows, test_mean) ==
    IF IsNone(rets) /\ windows # <<>> /\ event_indices # <<>> THEN Raise("AttributeError")
    ELSE Ok([k \in 1..Len(windows) |-> SingleRow(rets, event_indices, windows[k], test_mean)])

(***************************************************************************)
(* stats.two_sample_test                                                   *)
(***************************************************************************)
\* the second inner loop: get_loc of every comparison date, no membership test
RECURSIVE CompareCars(_, _, _)
CompareCars(rets, dates, window) ==
    IF dates = <<>> THEN <<>>
    ELSE <<compute_car(rets, GetLoc(rets, Head(dates)), window)>>
         \o CompareCars(rets, Tail(dates), window)

\* a second loop that takes Mean, Std and N from the event-date CARs
TwoSampleRow_event_stats(rets, event_indices, compare_events, window) ==
    LET event_cars   == EventCars(rets, event_indices, window)
        compare_cars == DropNa(CompareCars(rets, compare_events, window))
        tt           == ttest_ind(event_cars, compare_cars)
    IN  IF Len(compare_cars) = 0 THEN MissingRow(window)
        ELSE [window |-> window, Mean |-> MeanOf(event_cars), Std |-> VarOf(event_cars),
              N |-> R(Len(event_cars)), t_stat |-> tt.t_stat, p_value |-> tt.p_value]

\* the body of the second loop over windows; Mean, Std and N are taken from
\* compare_cars
TwoSampleRow(rets, event_indices, compare_events, window) ==
    LET event_cars   == EventCars(rets, event_indices, window)
        compare_cars == DropNa(CompareCars(rets, compare_events, window))
        tt           == ttest_ind(event_cars, compare_cars)
    IN  IF Len(compare_cars) = 0 THEN MissingRow(window)
        ELSE [window |-> window, Mean |-> MeanOf(compare_cars), Std |-> VarOf(compare_cars),
              N |-> R(Len(compare_cars)), t_stat |-> tt.t_stat, p_value |-> tt.p_value]

\* On None the first attribute access raises AttributeError; get_loc of a date
\* that is not in the axis raises KeyError.  Neither is reached with no window.
two_sample_test(rets, event_indices, compare_events, windows) ==
    IF windows = <<>> THEN Ok(<<>>)
    ELSE IF IsNone(rets) /\ (event_indices # <<>> \/ compare_events # <<>>)
    THEN Raise("AttributeError")
    ELSE IF \E k \in 1..Len(compare_events) : ~InIndex(rets, compare_events[k])
    THEN Raise("KeyError")
    ELSE Ok([k \in 1..Len(windows) |->
                TwoSampleRow(rets, event_indices, compare_events, windows[k])])

(***************************************************************************)
(* stats.random_sample.  The draw is random: the operator gives the set of  *)
(* outcomes it can have.                                                   *)
(***************************************************************************)
\* the parameters `def random_sample(...)` declares
random_sample_params == {"stock_returns", "n", "filtered_idx"}

\* stock_returns.loc[filtered_idx]: one row per list entry, in list order,
\* repeated entries repeated
Loc(s, labels) == Series([k \in 1..Len(labels) |-> s.rows[GetLoc(s, labels[k]) + 1]])

\* the ways to pick n different rows of a pool of size m, in drawing order
Picks(m, n) == {f \in [1..n -> 1..m] : \A i, j \in 1..n : i # j => f[i] # f[j]}

\* Series.sample(n): n rows without replacement; more than the pool holds is a
\* ValueError
Sample(pool, n) ==
    IF n > Len(pool.rows) THEN {Raise("ValueError")}
    ELSE {Ok([k \in 1..n |-> pool.rows[f[k]]]) : f \in Picks(Len(pool.rows), n)}

random_sample(stock_returns, n, filtered_idx) ==
    IF IsNone(stock_returns) THEN {Raise("AttributeError")}
    ELSE IF filtered_idx = <<>> THEN Sample(stock_returns, n)
    ELSE IF \E k \in 1..Len(filtered_idx) : ~InIndex(stock_returns, filtered_idx[k])
    THEN {Raise("KeyError")}
    ELSE Sample(Loc(stock_returns, filtered_idx), n)

(***************************************************************************)
(* utils.rolling_residual: statsmodels' RollingOLS of Y on [const, X],     *)
(* back-filled coefficients, residual = Y - X * beta - alpha.              *)
(***************************************************************************)
\* number of regressors after sm.add_constant: RollingOLS's default min_nobs
MinNobs == 2

RECURSIVE SumOver(_, _, _)
SumOver(f, lo, hi) == IF hi < lo THEN R(0) ELSE RAdd(f[hi], SumOver(f, lo, hi - 1))

RECURSIVE SumProd(_, _, _, _)
SumProd(f, g, lo, hi) ==
    IF hi < lo THEN R(0) ELSE RAdd(RMul(f[hi], g[hi]), SumProd(f, g, lo, hi - 1))

\* ordinary least squares of y on [1, x] over rows lo..hi: <<alpha, beta>>
OLS(y, x, lo, hi) ==
    LET m    == R(hi - lo + 1)
        Sx   == SumOver(x, lo, hi)
        Sy   == SumOver(y, lo, hi)
        Sxx  == SumProd(x, x, lo, hi)
        Sxy  == SumProd(x, y, lo, hi)
        beta == RDiv(RSub(RMul(m, Sxy), RMul(Sx, Sy)), RSub(RMul(m, Sxx), RMul(Sx, Sx)))
    IN  <<RDiv(RSub(Sy, RMul(beta, Sx)), m), beta>>

\* reg.params from row t (1-based) on: at a row the fit over the trailing
\* `window` rows; with expanding the rows from MinNobs on are fitted on all
\* rows so far; the rows before the first fit are NaN
RECURSIVE RollingParams(_, _, _, _, _)
RollingParams(t, y, x, window, expanding) ==
    IF t > Len(y) THEN <<>>
    ELSE <<IF t < (IF expanding THEN MinNobs ELSE window) THEN <<NaN, NaN>>
           ELSE OLS(y, x, IF t - window + 1 < 1 THEN 1 ELSE t - window + 1, t)>>
         \o RollingParams(t + 1, y, x, window, expanding)

\* bfill that fills nothing
BFill_no_fill(f) == f

\* Series.bfill(): a missing value takes the next value that is not missing
RECURSIVE BFill(_)
BFill(f) ==
    IF f = <<>> THEN <<>>
    ELSE LET rest == BFill(Tail(f))
         IN  <<IF IsNaN(Head(f)) /\ rest # <<>> THEN Head(rest) ELSE Head(f)>> \o rest

\* Y - (X * beta) - alpha, row by row from row t on
RECURSIVE ResidualRows(_, _, _, _, _)
ResidualRows(t, Y, X, alpha, beta) ==
    IF t > Len(Y.rows) THEN <<>>
    ELSE <<[date |-> Y.rows[t].date,
            val  |-> RSub(RSub(Y.rows[t].val, RMul(X.rows[t].val, beta[t])), alpha[t])]>>
         \o ResidualRows(t + 1, Y, X, alpha, beta)

RECURSIVE Column(_, _)
Column(params, c) ==
    IF params = <<>> THEN <<>> ELSE <<Head(params)[c]>> \o Column(Tail(params), c)

RECURSIVE Values(_)
Values(rows) == IF rows = <<>> THEN <<>> ELSE <<Head(rows).val>> \o Values(Tail(rows))

\* RollingOLS refuses axes that differ (ValueError) and a window below min_nobs
\* (ValueError); without expanding, a window longer than the series writes its
\* first fit past the end of the parameter store (IndexError)
rolling_residual(Y, X, window, expanding) ==
    IF Index(Y) # Index(X) THEN Raise("ValueError")
    ELSE IF window < MinNobs THEN Raise("ValueError")
    ELSE IF ~expanding /\ window > Len(Y.rows) THEN Raise("IndexError")
    ELSE LET params == RollingParams(1, Values(Y.rows), Values(X.rows), window, expanding)
             alpha  == BFill(Column(params, 1))
             beta   == BFill(Column(params, 2))
         IN  Ok(Series(ResidualRows(1, Y, X, alpha, beta)))

(***************************************************************************)
(* class EventStudy.  A method is an operator of the fields it reads; a    *)
(* Monte Carlo method gives the set of runs its random draws allow, each   *)
(* run with the number of trials started, of draws that returned and of    *)
(* hypothesis tests that returned.                                         *)
(***************************************************************************)
Run(out, trials, draws, tests) == [out |-> out, trials |-> trials, draws |-> draws, tests |-> tests]

\* the keyword arguments both Monte Carlo methods pass to random_sample
random_sample_keywords == {"n", "filtered_idx", "replacement"}

\* a Python call: a keyword the function does not declare is a TypeError, raised
\* before the body runs
CallRandomSample(keywords, stock_returns, n, filtered_idx) ==
    IF ~(keywords \subseteq random_sample_params) THEN {Raise("TypeError")}
    ELSE random_sample(stock_returns, n, filtered_idx)

\* results["t_stat"]
TColumn(table) == [k \in 1..Len(table) |-> table[k].t_stat]

\* mean(axis=1) and std(axis=1) of the trials' t statistics of one window.  The
\* statistics are square roots, so each aggregate is carried as the sequence of
\* the values it is taken over (missing ones skipped), and <<>> is NaN: the mean of
\* no value, the standard deviation of fewer than two.
AggMean(ts) == SelectSeq(ts, LAMBDA t : t # NaN3)

AggStd(ts) == IF Len(SelectSeq(ts, LAMBDA t : t # NaN3)) < 2 THEN <<>> ELSE SelectSeq(ts, LAMBDA t : t # NaN3)

\* (mean_random, std_random), indexed by the window list
Aggregate(windows, cols) ==
    [k \in 1..Len(windows) |->
        [window |-> windows[k],
         mean   |-> AggMean([i \in 1..Len(cols) |-> cols[i][k]]),
         std    |-> AggStd([i \in 1..Len(cols) |-> cols[i][k]])]]

fit_residuals(market, stock_returns, window, expanding) ==
    rolling_residual(stock_returns, market, window, expanding)

event_single_test(res, windows, event_dates, pop_mean) ==
    single_sample_test(res, event_dates, windows, pop_mean)

\* the loop `for i in range(M)` of random_single_test from trial i on, cols the
\* t_stat columns stored so far
RECURSIVE RandomTrials(_, _, _, _, _, _, _, _)
RandomTrials(i, cols, res, windows, filtered_dates, n, M, pop_mean) ==
    IF i = M THEN {Run(Ok(Aggregate(windows, cols)), i, i, i)}
    ELSE UNION {
        IF d.status = "raise" THEN {Run(d, i + 1, i, i)}
        ELSE LET results == single_sample_test(res, Index(Series(d.value)), windows, pop_mean)
             IN  IF results.status = "raise" THEN {Run(results, i + 1, i + 1, i)}
                 ELSE RandomTrials(i + 1, Append(cols, TColumn(results.value)),
                                   res, windows, filtered_dates, n, M, pop_mean)
        : d \in CallRandomSample(random_sample_keywords, res, n, filtered_dates)}

random_single_test(res, windows, filtered_dates, n, M, pop_mean, replacement) ==
    RandomTrials(0, <<>>, res, windows, filtered_dates, n, M, pop_mean)

\* the loop `for i in range(M)` of event_two_sample_test from trial i on
RECURSIVE TwoSampleTrials(_, _, _, _, _, _, _, _)
TwoSampleTrials(i, cols, res, windows, event_dates, filtered_dates, n, M) ==
    IF i = M THEN {Run(Ok(Aggregate(windows, cols)), i, i, i)}
    ELSE UNION {
        IF d.status = "raise" THEN {Run(d, i + 1, i, i)}
        ELSE LET results == two_sample_test(res, event_dates, Index(Series(d.value)), windows)
             IN  IF results.status = "raise" THEN {Run(results, i + 1, i + 1, i)}
                 ELSE TwoSampleTrials(i + 1, Append(cols, TColumn(results.value)),
                                      res, windows, event_dates, filtered_dates, n, M)
        : d \in CallRandomSample(random_sample_keywords, res, n, filtered_dates)}

event_two_sample_test(res, windows, event_dates, filtered_dates, n, M, replacement) ==
    TwoSampleTrials(0, <<>>, res, windows, event_dates, filtered_dates, n, M)

(***************************************************************************)
(* Inputs.  Trading days are the even day numbers, so odd days are dates   *)
(* that no series holds.                                                   *)
(***************************************************************************)
TradingDay(p) == 2 * p

\* the series with the given values on the first trading days
OnAxis(vals) == Series([p \in 1..Len(vals) |-> [date |-> TradingDay(p), val |-> R(vals[p])]])

SeqsUpTo(S, n) == UNION {[1..k -> S] : k \in 0..n}

NoRepeat(q) == \A i, j \in 1..Len(q) : i # j => q[i] # q[j]

\* return series handed to the module-level functions, of one row or more
ReturnSeries == {OnAxis(vals) : vals \in SeqsUpTo({-1, 2}, MaxLen) \ {<<>>}}

\* date lists: a first trading day, a non-trading day, later trading days
DateLists == SeqsUpTo(2..(MaxLen + 1), 2)

\* window lists: distinct windows in any order
WindowLists == {q \in SeqsUpTo(0..MaxWindow, 2) : NoRepeat(q)}

PopMeans == {R(0), R(1)}

\* the orchestrator's benchmark: neighbouring returns differ, so every
\* regression window of two or more rows has a unique fit
Market == OnAxis([p \in 1..SeriesLen |-> p % 3])

\* asset series for fit_residuals, the last one a row short of the benchmark
Stocks ==
    {OnAxis([p \in 1..SeriesLen |-> p % 2]),
     OnAxis([p \in 1..SeriesLen |-> (2 * (p % 3)) + 1]),
     OnAxis([p \in 1..SeriesLen |-> ((p * p) % 5) - 2]),
     OnAxis([p \in 1..(SeriesLen - 1) |-> p % 2])}

RegWindows == {1, 2, 3, SeriesLen + 1}

StudyWindowLists == {<<>>, <<1>>, <<MaxWindow, 0>>}

StudyDateLists == SeqsUpTo({2, 3, TradingDay(SeriesLen)}, 2)

StudyPools == {<<>>, <<2, 4>>}

(***************************************************************************)
(* State machine.                                                          *)
(***************************************************************************)
NoCall ==
    [op |-> "none", args |-> <<>>, fitted_before |-> FALSE, out |-> Ok(<<>>),
     trials |-> 0, draws |-> 0, tests |-> 0]

\* the record of a call that has ended: fitted_before tells whether the
\* orchestrator held residuals when the call began
Called(op, args, run) ==
    [op |-> op, args |-> args, fitted_before |-> ~IsNone(residuals), out |-> run.out,
     trials |-> run.trials, draws |-> run.draws, tests |-> run.tests]

\* EventStudy.__init__
Init ==
    /\ ticker = "TICKER"
    /\ market_returns = Market
    /\ car_windows \in StudyWindowLists
    /\ residuals = None
    /\ returns = None
    /\ call = NoCall

\* fit_residuals that keeps the residuals of the first fit
FitResiduals_keep_first ==
    \E stock \in Stocks, window \in RegWindows, expanding \in BOOLEAN :
        \E out \in {fit_residuals(market_returns, stock, window, expanding)} :
            /\ residuals' = IF out.status = "ok" /\ IsNone(residuals) THEN out.value ELSE residuals
            /\ call' = Called("fit_residuals",
                              [stock_returns |-> stock, window |-> window, expanding |-> expanding],
                              Run(IF out.status = "ok" THEN Ok(<<>>) ELSE out, 0, 0, 0))
            /\ UNCHANGED <<ticker, market_returns, car_windows, returns>>

\* fit_residuals that clears the residuals before it calls rolling_residual
FitResiduals_clears_first ==
    \E stock \in Stocks, window \in RegWindows, expanding \in BOOLEAN :
        \E out \in {fit_residuals(market_returns, stock, window, expanding)} :
            /\ residuals' = IF out.status = "ok" THEN out.value ELSE None
            /\ call' = Called("fit_residuals",
                              [stock_returns |-> stock, window |-> window, expanding |-> expanding],
                              Run(IF out.status = "ok" THEN Ok(<<>>) ELSE out, 0, 0, 0))
            /\ UNCHANGED <<ticker, market_returns, car_windows, returns>>

\* self.residuals is assigned once rolling_residual has returned
FitResiduals ==
    \E stock \in Stocks, window \in RegWindows, expanding \in BOOLEAN :
        \E out \in {fit_residuals(market_returns, stock, window, expanding)} :
            /\ residuals' = IF out.status = "ok" THEN out.value ELSE residuals
            /\ call' = Called("fit_residuals",
                              [stock_returns |-> stock, window |-> window, expanding |-> expanding],
                              Run(IF out.status = "ok" THEN Ok(<<>>) ELSE out, 0, 0, 0))
            /\ UNCHANGED <<ticker, market_returns, car_windows, returns>>

\* event_single_test that drops the residual series it has tested
EventSingleTest_consumes_residuals ==
    \E event_dates \in StudyDateLists, pop_mean \in PopMeans :
        /\ call' = Called("event_single_test",
                          [event_dates |-> event_dates, pop_mean |-> pop_mean],
                          Run(event_single_test(residuals, car_windows, event_dates, pop_mean), 0, 0, 0))
        /\ residuals' = None
        /\ UNCHANGED <<ticker, market_returns, car_windows, returns>>

EventSingleTest ==
    \E event_dates \in StudyDateLists, pop_mean \in PopMeans :
        /\ call' = Called("event_single_test",
                          [event_dates |-> event_dates, pop_mean |-> pop_mean],
                          Run(event_single_test(residuals, car_windows, event_dates, pop_mean), 0, 0, 0))
        /\ UNCHANGED <<ticker, market_returns, car_windows, residuals, returns>>

RandomSingleTest ==
    \E filtered_dates \in StudyPools, n \in {0, 1, MaxN}, M \in 0..MaxM,
       pop_mean \in {R(0)}, replacement \in BOOLEAN :
        \E run \in random_single_test(residuals, car_windows, filtered_dates, n, M,
                                      pop_mean, replacement) :
            /\ call' = Called("random_single_test",
                              [filtered_dates |-> filtered_dates, n |-> n, M |-> M,
                               pop_mean |-> pop_mean, replacement |-> replacement], run)
            /\ UNCHANGED <<ticker, market_returns, car_windows, residuals, returns>>

EventTwoSampleTest ==
    \E event_dates \in {<<2>>, <<3, TradingDay(SeriesLen)>>},
       filtered_dates \in StudyPools, n \in {0, MaxN}, M \in 0..MaxM, replacement \in BOOLEAN :
        \E run \in event_two_sample_test(residuals, car_windows, event_dates,
                                         filtered_dates, n, M, replacement) :
            /\ call' = Called("event_two_sample_test",
                              [event_dates |-> event_dates, filtered_dates |-> filtered_dates,
                               n |-> n, M |-> M, replacement |-> replacement], run)
            /\ UNCHANGED <<ticker, market_returns, car_windows, residuals, returns>>

Next == FitResiduals \/ EventSingleTest \/ RandomSingleTest \/ EventTwoSampleTest

Spec == Init /\ [][Next]_vars

(***************************************************************************)
(* The module-level functions called directly: every behaviour draws a     *)
(* return series and applies one function to it once.                      *)
(***************************************************************************)
InitFn ==
    /\ ticker = "TICKER"
    /\ market_returns = Market
    /\ car_windows = <<>>
    /\ residuals = None
    /\ returns \in ReturnSeries
    /\ call = NoCall

FnFrame == UNCHANGED <<ticker, market_returns, car_windows, residuals, returns>>

CallComputeCar ==
    /\ call = NoCall
    /\ \E event_index \in 0..(Len(returns.rows) - 1), window \in 0..MaxWindow :
        call' = Called("compute_car", [event_index |-> event_index, window |-> window],
                       Run(Ok(compute_car(returns, event_index, window)), 0, 0, 0))
    /\ FnFrame

CallComputeCarScript ==
    /\ call = NoCall
    /\ \E event_index \in 0..(Len(returns.rows) - 1), window \in 0..MaxWindow :
        call' = Called("compute_car_script", [event_index |-> event_index, window |-> window],
                       Run(Ok(compute_car_script(returns, event_index, window)), 0, 0, 0))
    /\ FnFrame

CallRandomSampleFn ==
    /\ call = NoCall
    /\ \E n \in 0..MaxN, filtered_idx \in DateLists :
        \E out \in random_sample(returns, n, filtered_idx) :
            call' = Called("random_sample", [n |-> n, filtered_idx |-> filtered_idx],
                           Run(out, 0, 0, 0))
    /\ FnFrame

CallSingleSampleTest ==
    /\ call = NoCall
    /\ \E event_indices \in DateLists, windows \in WindowLists, test_mean \in PopMeans :
        call' = Called("single_sample_test",
                       [event_indices |-> event_indices, windows |-> windows, test_mean |-> test_mean],
                       Run(single_sample_test(returns, event_indices, windows, test_mean), 0, 0, 0))
    /\ FnFrame

CallTwoSampleTest ==
    /\ call = NoCall
    /\ \E event_indices \in DateLists, compare_events \in DateLists, windows \in WindowLists :
        call' = Called("two_sample_test",
                       [event_indices |-> event_indices, compare_events |-> compare_events,
                        windows |-> windows],
                       Run(two_sample_test(returns, event_indices, compare_events, windows), 0, 0, 0))
    /\ FnFrame

NextFn ==
    \/ CallComputeCar
    \/ CallComputeCarScript
    \/ CallRandomSampleFn
    \/ CallSingleSampleTest
    \/ CallTwoSampleTest

SpecFn == InitFn /\ [][NextFn]_vars

(***************************************************************************)
(* Properties.                                                             *)
(***************************************************************************)
TestOps == {"event_single_test", "random_single_test", "event_two_sample_test"}

MonteCarloOps == {"random_single_test", "event_two_sample_test"}

\* the dates of a list that the axis of s holds, in list order
PresentDates(s, dates) == SelectSeq(dates, LAMBDA d : InIndex(s, d))

\* the sum of the rows at 0-based offsets i..i+w of s, all of them in s
WindowSum(s, i, w) == SumOver([p \in 1..Len(s.rows) |-> s.rows[p].val], i + 1, i + w + 1)

\* C1: while the orchestrator is Unfitted (fit_residuals never completed) every
\* test operation raises, whatever its arguments; none returns a table or an
\* aggregate.
C1_UnfittedTestsRaise ==
    (IsNone(residuals) /\ call.op \in TestOps) => call.out.status = "raise"

\* C2: the orchestrator starts Unfitted; a fit_residuals that returns leaves the
\* residuals equal to the regression residuals of that very call, also when
\* residuals of an earlier fit were held; no step takes a Fitted orchestrator
\* back to Unfitted.
C2_FitLifecycle ==
    /\ IsNone(residuals)
    /\ [][/\ (call'.op = "fit_residuals" /\ call'.out.status = "ok")
             => /\ ~IsNone(residuals')
                /\ residuals' = rolling_residual(call'.args.stock_returns, market_returns,
                                                 call'.args.window, call'.args.expanding).value
          /\ ~IsNone(residuals) => ~IsNone(residuals')]_vars

\* C2 witness: a fit has returned on an orchestrator that already held
\* residuals, and it now holds the residuals of a regression over a window
\* shorter than the series.
C2_Witness ==
    /\ call.op = "fit_residuals" /\ call.out.status = "ok"
    /\ call.fitted_before
    /\ ~IsNone(residuals)
    /\ call.args.window < Len(residuals.rows)
    /\ \E p \in 1..Len(residuals.rows) : residuals.rows[p].val # R(0)

\* C3: compute_car gives the sum of the w+1 rows at offsets i..i+w when they
\* all exist (i + w <= N-1), and a missing value when i + w > N-1, never the
\* sum of the rows that remain.
C3_CarExactOrMissing ==
    call.op \in {"compute_car", "compute_car_script"} =>
        IF call.args.event_index + call.args.window <= Len(returns.rows) - 1
        THEN call.out.value = WindowSum(returns, call.args.event_index, call.args.window)
        ELSE call.out.status = "raise" \/ IsNaN(call.out.value)

\* C4: on a Fitted orchestrator a Monte Carlo operation with M >= 1 and n within
\* the pool returns, after exactly M trials of one draw and one test each, an
\* aggregate with one row per window of the window list.
C4_MonteCarloRunsMTrials ==
    (/\ call.op \in MonteCarloOps
     /\ ~IsNone(residuals)
     /\ call.args.M >= 1
     /\ call.args.n <= (IF call.args.filtered_dates = <<>> THEN Len(residuals.rows)
                        ELSE Len(call.args.filtered_dates)))
    => /\ call.out.status = "ok"
       /\ call.trials = call.args.M /\ call.draws = call.args.M /\ call.tests = call.args.M
       /\ [k \in 1..Len(call.out.value) |-> call.out.value[k].window] = car_windows

\* the dates of the rows a random_sample call returned
SampledDates == [k \in 1..Len(call.out.value) |-> call.out.value[k].date]

\* the set of dates a sequence of dates holds
DateSet(dates) == {dates[k] : k \in 1..Len(dates)}

\* C5: sampling without replacement from a pool of dates of the series (the
\* whole axis, or the dates of the caller's list, which may repeat a date),
\* random_sample returns exactly n pairwise different dates of the pool when n
\* is at most the number of dates in the pool, and raises when n is larger.
C5_SampleDistinctOrRaise ==
    (/\ call.op = "random_sample"
     /\ \A d \in DateSet(call.args.filtered_idx) : InIndex(returns, d))
    => LET pool == IF call.args.filtered_idx = <<>> THEN DateSet(Index(returns))
                   ELSE DateSet(call.args.filtered_idx)
       IN  IF call.args.n <= Cardinality(pool)
           THEN /\ call.out.status = "ok"
                /\ Len(SampledDates) = call.args.n
                /\ NoRepeat(SampledDates)
                /\ DateSet(SampledDates) \subseteq pool
           ELSE call.out.status = "raise"

\* C6: with a non-empty exclusion list filtered_idx no date that random_sample
\* returns is in the list; with an empty list every returned date is a date of
\* the series.
C6_SampleAvoidsExcluded ==
    (call.op = "random_sample" /\ call.out.status = "ok")
    => /\ DateSet(SampledDates) \cap DateSet(call.args.filtered_idx) = {}
       /\ DateSet(SampledDates) \subseteq DateSet(Index(returns))

\* C7: the table single_sample_test returns for a date list is the table it
\* returns for the list without the dates the axis does not hold; the call does
\* not raise, and a row's N is the number of listed dates the axis holds
\* (missing when there is none), so an absent date adds no sample.
C7_DateDropIdempotent ==
    call.op = "single_sample_test" =>
        LET present == PresentDates(returns, call.args.event_indices)
        IN  /\ call.out.status = "ok"
            /\ call.out.value = single_sample_test(returns, present, call.args.windows,
                                                   call.args.test_mean).value
            /\ \A k \in 1..Len(call.out.value) :
                   call.out.value[k].N = IF present = <<>> THEN NaN ELSE R(Len(present))

\* C7 witness: a table with a populated row, computed from a list that holds a
\* date of the axis and a date that is not in it.
C7_Witness ==
    /\ call.op = "single_sample_test" /\ call.out.status = "ok"
    /\ \E d \in DateSet(call.args.event_indices) : InIndex(returns, d)
    /\ \E d \in DateSet(call.args.event_indices) : ~InIndex(returns, d)
    /\ \E k \in 1..Len(call.out.value) : call.out.value[k].N = R(1)

\* a sequence without its k-th entry
RemoveAt(q, k) == [j \in 1..(Len(q) - 1) |-> IF j < k THEN q[j] ELSE q[j + 1]]

\* C8: in single_sample_test a window whose CAR list is empty after dropna gives
\* a row with all five columns missing; the call does not raise, and the other
\* rows, before and after, are those of the call without that window.
C8_DegenerateWindowRow ==
    call.op = "single_sample_test" =>
        /\ call.out.status = "ok"
        /\ Len(call.out.value) = Len(call.args.windows)
        /\ \A k \in 1..Len(call.args.windows) :
               DropNa(EventCars(returns, call.args.event_indices, call.args.windows[k])) = <<>>
               => /\ RowMissing(call.out.value[k])
                  /\ RemoveAt(call.out.value, k)
                       = single_sample_test(returns, call.args.event_indices,
                                            RemoveAt(call.args.windows, k),
                                            call.args.test_mean).value

\* C8 witness: a call with event dates and two windows, the first of them with
\* no CAR sample, that returned its table.
C8_Witness ==
    /\ call.op = "single_sample_test" /\ call.out.status = "ok"
    /\ call.args.event_indices # <<>>
    /\ Len(call.args.windows) = 2
    /\ returns.rows # <<>>
    /\ RowMissing(call.out.value[1])

\* C9: in single_sample_test the N of window w is the number of listed dates
\* that the axis holds at an offset p with p + w <= last offset, and the row
\* of w is all-missing when there is no such date.
C9_NCountsFittingAnchors ==
    call.op = "single_sample_test" =>
        /\ call.out.status = "ok"
        /\ \A k \in 1..Len(call.args.windows) :
               LET fitting == SelectSeq(PresentDates(returns, call.args.event_indices),
                                        LAMBDA d : GetLoc(returns, d) + call.args.windows[k]
                                                     <= Len(returns.rows) - 1)
               IN  IF fitting = <<>> THEN RowMissing(call.out.value[k])
                   ELSE call.out.value[k].N = R(Len(fitting))

\* C10: two_sample_test drops an event date that the axis does not hold and
\* raises for a comparison date that the axis does not hold, whatever the
\* window list: it returns a table exactly when every comparison date is in
\* the axis.
C10_AbsentCompareDateRaises ==
    call.op = "two_sample_test" =>
        IF \A d \in DateSet(call.args.compare_events) : InIndex(returns, d)
        THEN call.out.status = "ok"
        ELSE call.out.status = "raise"

\* C11: in both Monte Carlo operations an error raised in a trial ends the call
\* there: no aggregate is returned, the failing trial is the last one started,
\* every earlier trial made its draw and its test, and no draw is repeated;
\* a trial whose draw is empty (n = 0), so that every window is degenerate, is
\* no error: on a Fitted orchestrator all M trials run and the aggregate is
\* returned.
C11_TrialErrorsPropagate ==
    call.op \in MonteCarloOps =>
        /\ call.out.status = "raise"
           => /\ call.out.value = <<>>
              /\ call.trials >= 1 /\ call.trials <= call.args.M
              /\ call.tests = call.trials - 1
              /\ call.draws \in {call.trials - 1, call.trials}
        /\ (~IsNone(residuals) /\ call.args.n = 0)
           => /\ call.out.status = "ok"
              /\ call.trials = call.args.M

\* C12: only fit_residuals changes the residual series: every step that is a
\* test operation, successful or failed, leaves the residual series, the window
\* list, the benchmark series and the ticker as they were, and a step that
\* changes the residual series is a fit_residuals call.
C12_OnlyFitChangesResiduals ==
    [][/\ call'.op \in TestOps
          => UNCHANGED <<residuals, car_windows, market_returns, ticker>>
       /\ residuals' # residuals => call'.op = "fit_residuals"]_vars

\* a populated event_single_test result on a Fitted orchestrator
C12_Witness ==
    /\ call.op = "event_single_test"
    /\ call.fitted_before
    /\ ~IsNone(residuals)
    /\ call.out.status = "ok"
    /\ \E i \in 1..Len(call.out.value) : ~RowMissing(call.out.value[i])

\* C14: a fit_residuals call that raises leaves the orchestrator as it was
\* before the call: the residual series (None when Unfitted, the series of the
\* last successful fit when Fitted), the ticker, the benchmark series and the
\* window list are unchanged.
C14_FailedFitKeepsState ==
    [][(call'.op = "fit_residuals" /\ call'.out.status = "raise")
       => /\ UNCHANGED <<residuals, ticker, market_returns, car_windows>>
          /\ call'.fitted_before = ~IsNone(residuals')]_vars

\* a failed fit on a Fitted orchestrator, whose residuals are still there
C14_Witness ==
    /\ call.op = "fit_residuals"
    /\ call.out.status = "raise"
    /\ call.fitted_before
    /\ ~IsNone(residuals)

\* the residual of row t of the last fit_residuals call under the intercept and
\* slope of the least-squares fit over rows 1..hi
ResidualUnder(t, hi) ==
    LET y == Values(call.args.stock_returns.rows)
        x == Values(market_returns.rows)
        c == OLS(y, x, 1, hi)
    IN  RSub(RSub(y[t], RMul(x[t], c[2])), c[1])

\* a successful fit with regression window W on a series of length >= W
WarmUpFit ==
    /\ call.op = "fit_residuals"
    /\ call.out.status = "ok"
    /\ call.args.window <= Len(call.args.stock_returns.rows)

\* C13 as stated: for both values of the expanding flag, the residual at each of
\* the first W-1 rows is defined and uses the intercept and slope estimated at
\* the first row with a full window (the fit over rows 1..W).
C13_WarmUpUsesFirstFullWindow ==
    WarmUpFit =>
        \A t \in 1..(call.args.window - 1) :
            /\ ~IsNaN(residuals.rows[t].val)
            /\ residuals.rows[t].val = ResidualUnder(t, call.args.window)

\* C13 amended: the residual at each of the first W-1 rows is defined; with
\* expanding disabled it uses the coefficients of the first full window (rows
\* 1..W); with expanding enabled row t uses the fit over rows 1..t, except the
\* first row, which is back-filled from the fit over rows 1..2.
C13_WarmUpByExpandingFlag ==
    WarmUpFit =>
        \A t \in 1..(call.args.window - 1) :
            /\ ~IsNaN(residuals.rows[t].val)
            /\ residuals.rows[t].val =
                   ResidualUnder(t, IF ~call.args.expanding THEN call.args.window
                                    ELSE IF t < MinNobs THEN MinNobs ELSE t)

\* an expanding fit whose warm-up residuals differ from those of the first full
\* window, the first row being back-filled
C13_Witness ==
    /\ WarmUpFit
    /\ call.args.expanding
    /\ call.args.window > MinNobs
    /\ \E t \in 1..(call.args.window - 1) :
           residuals.rows[t].val # ResidualUnder(t, call.args.window)
    /\ residuals.rows[1].val = ResidualUnder(1, MinNobs)

\* the CAR samples of the comparison dates of the last two_sample_test call for
\* window w, in list order, the missing ones dropped
ComparisonCars(w) ==
    DropNa([j \in 1..Len(call.args.compare_events) |->
               compute_car(returns, GetLoc(returns, call.args.compare_events[j]), w)])

\* C15: in a table returned by two_sample_test the Mean, Std and N of each row
\* are the mean, the standard deviation and the count of the comparison-date
\* CAR samples of that window, whatever the event dates are; a row is
\* all-missing exactly when that window has no comparison CAR sample; and when
\* every comparison date is in the axis the call returns a table even if no
\* event date is in the axis.
C15_RowDescribesComparisonCars ==
    call.op = "two_sample_test" =>
        /\ call.out.status = "ok"
           => \A k \in 1..Len(call.args.windows) :
                  LET row == call.out.value[k]
                      cc  == ComparisonCars(call.args.windows[k])
                  IN  /\ RowMissing(row) <=> cc = <<>>
                      /\ cc # <<>> => /\ row.N = R(Len(cc))
                                      /\ row.Mean = MeanOf(cc)
                                      /\ row.Std = VarOf(cc)
        /\ (\A d \in DateSet(call.args.compare_events) : InIndex(returns, d))
           => call.out.status = "ok"

\* a returned table for event dates that are all outside the axis: a row with
\* the statistics of two comparison CARs and no t statistic
C15_Witness ==
    /\ call.op = "two_sample_test"
    /\ call.out.status = "ok"
    /\ call.args.event_indices # <<>>
    /\ PresentDates(returns, call.args.event_indices) = <<>>
    /\ \E k \in 1..Len(call.args.windows) :
           /\ call.out.value[k].N = R(2)
           /\ ~IsNaN(call.out.value[k].Std)
           /\ call.out.value[k].t_stat = NaN3

====
